---- MODULE Spec2Model ----
(***************************************************************************)
(* ducktail.js: Handlebars with a built-in file cache.                     *)
(*                                                                         *)
(* The model follows lib/ducktail.js (the variant with partials and        *)
(* helpers) and lib/async.js.  One action stands for one run-to-completion *)
(* unit of the event loop: the synchronous part of render(), one           *)
(* process.nextTick callback, one fs.readFile callback, one clearCache().  *)
(* The collaborators (memory-cache, Handlebars, the async library, fs,     *)
(* process.nextTick) are modelled by their contracts.                      *)
(***************************************************************************)
EXTENDS Integers, Sequences, FiniteSets, TLC

(* ------------------------------ bounds --------------------------------- *)
MaxRenders == 2
MaxCalls == 3
MaxClears == 1

Slots == 1..MaxRenders

(* ------------------------------ values --------------------------------- *)
\* A value held by the cache or by the Handlebars registry: a compiled
\* template (src = the file it was compiled from, by = the number of the
\* file read whose text was compiled: two compilations give two objects)
\* or a helper function.
Val(s, n) == [src |-> s, by |-> n]
Absent == Val("absent", 0)
Undefined == Val("undefined", 0)

NoErr == "null"
\* The error object of a failed fs.readFile: one object per read, told
\* apart here by the lookup whose read failed.
ReadErr(k) ==
  CASE k = "main" -> "ENOENT main"
    [] k = "x"    -> "ENOENT x"
    [] OTHER      -> "ENOENT y"

Paths == {"tmpl", "part", "fake", "bad", "thr"}
PartialNames == {"x", "y"}
HelperNames == {"h"}
Keys == {"main"} \cup PartialNames

\* The file system and the engine, per path: "ok" reads, compiles and
\* renders; "missing" fails to read; "nocompile" makes Handlebars.compile
\* raise; "throws" compiles but raises when the template is invoked.
FileKind(p) ==
  CASE p = "fake" -> "missing"
    [] p = "bad"  -> "nocompile"
    [] p = "thr"  -> "throws"
    [] OTHER      -> "ok"

NoPartials == <<>>
NoHelpers == [n \in HelperNames |-> Absent]
Helper(f) == [n \in HelperNames |-> Val(f, 0)]
P(n, p) == [name |-> n, path |-> p]

\* The render calls the environment may make: path, opts.partials (in key
\* order) and opts.helpers.
Calls ==
  { [path |-> "tmpl", partials |-> NoPartials, helpers |-> NoHelpers],
    [path |-> "tmpl", partials |-> <<P("x", "part")>>, helpers |-> Helper("f1")],
    [path |-> "part", partials |-> <<P("x", "tmpl"), P("y", "part")>>,
       helpers |-> Helper("f2")],
    [path |-> "fake", partials |-> <<P("x", "fake")>>, helpers |-> NoHelpers],
    [path |-> "tmpl", partials |-> <<P("x", "fake"), P("y", "part")>>,
       helpers |-> NoHelpers],
    [path |-> "bad", partials |-> <<P("x", "fake")>>, helpers |-> NoHelpers],
    [path |-> "thr", partials |-> <<P("x", "part")>>, helpers |-> Helper("f1")] }

NoCall == [path |-> "none", partials |-> NoPartials, helpers |-> NoHelpers]

PartialKeys(call) == {call.partials[i].name : i \in 1..Len(call.partials)}
KeysOf(call) == {"main"} \cup PartialKeys(call)
PathOf(call, k) ==
  IF k = "main" THEN call.path
  ELSE LET i == CHOOSE j \in 1..Len(call.partials) : call.partials[j].name = k
       IN call.partials[i].path

(* ------------------------------ state ---------------------------------- *)
VARIABLES
  cache,      \* memory-cache: a set of [key, val] entries
  registry,   \* Handlebars.partials and Handlebars.helpers
  readCount,  \* number of fs.readFile calls per path
  ticks,      \* the process.nextTick queue: <<slot, key>> in FIFO order
  rs,         \* the render calls in flight, per slot
  calls,      \* number of render calls made
  clears,     \* number of clearCache calls made
  lastOp,     \* the operation that produced this state
  delivered,  \* history: successful renders since the last clearCache
  putSince,   \* history: paths stored by cache.put since the last clearCache
  wasCached,  \* history: paths that were cached when some clearCache ran
  passed,     \* argument handling of render: the calls made to renderFile
  v1          \* the earlier variant of the module (raw text in the cache)

vars == <<cache, registry, readCount, ticks, rs, calls, clears, lastOp,
          delivered, putSince, wasCached, passed, v1>>

\* The state of the module with partials and helpers.
mainVars == <<cache, registry, readCount, ticks, rs, calls, clears, lastOp,
              delivered, putSince, wasCached>>

(* --------------------------- memory-cache ------------------------------ *)
cache_get(c, key) ==
  IF \E e \in c : e.key = key
  THEN (CHOOSE e \in c : e.key = key).val
  ELSE Absent

\* cache_put as it would be if the old entry of the key were kept.
cache_put_keepOld(c, key, val) == c \cup {[key |-> key, val |-> val]}

cache_put(c, key, val) ==
  {e \in c : e.key # key} \cup {[key |-> key, val |-> val]}

\* cache_clear as it would be if it removed one entry only.
cache_clear_one(c) ==
  IF c = {} THEN c ELSE c \ {CHOOSE e \in c : \A e2 \in c : e.val.by <= e2.val.by}

cache_clear(c) == {}

(* ---------------------------- Handlebars ------------------------------- *)
EmptyRegistry ==
  [partials |-> [n \in PartialNames |-> Absent],
   helpers  |-> [n \in HelperNames |-> Absent]]

NoResult == [n \in PartialNames |-> Absent]

\* Handlebars.compile(text) for the text of file p, read by read number n;
\* CompileErr is the exception it raises.
CompileErr == "compile error"
CompileThrows(p) == FileKind(p) = "nocompile"
Compile(p, n) == Val(p, n)

\* tmpl(data): the output is determined by the template and by the
\* partials and helpers registered at the moment of the invocation.
InvokeThrows(tmpl) == FileKind(tmpl.src) = "throws"
Invoke(tmpl, reg) == [of |-> tmpl, partials |-> reg.partials, helpers |-> reg.helpers]
NoContent == [of |-> Absent, partials |-> NoResult, helpers |-> NoHelpers]

\* ducktail._loop: Handlebars[action](key, val) for every key of obj.
_loop(table, obj, action) ==
  [n \in DOMAIN table |->
     IF obj[n] = Absent THEN table[n]
     ELSE IF action = "register" THEN obj[n] ELSE Absent]

\* _register as it would be if a name already registered kept its value.
_register_keep(reg, opts) ==
  [partials |-> [n \in PartialNames |->
                   IF reg.partials[n] # Absent THEN reg.partials[n]
                   ELSE _loop(reg.partials, opts.partials, "register")[n]],
   helpers  |-> [n \in HelperNames |->
                   IF reg.helpers[n] # Absent THEN reg.helpers[n]
                   ELSE _loop(reg.helpers, opts.helpers, "register")[n]]]

_register(reg, opts) ==
  [partials |-> _loop(reg.partials, opts.partials, "register"),
   helpers  |-> _loop(reg.helpers, opts.helpers, "register")]

\* _unregister as it would be if the helpers were forgotten.
_unregister_partialsOnly(reg, opts) ==
  [partials |-> _loop(reg.partials, opts.partials, "unregister"),
   helpers  |-> reg.helpers]

_unregister(reg, opts) ==
  [partials |-> _loop(reg.partials, opts.partials, "unregister"),
   helpers  |-> _loop(reg.helpers, opts.helpers, "unregister")]

\* ducktail.renderTmpl: register, invoke, unregister.  An exception of the
\* invocation leaves the function before _unregister runs.
renderTmpl(reg, tmpl, opts) ==
  LET reg1 == _register(reg, opts) IN
  IF InvokeThrows(tmpl)
  THEN [threw |-> TRUE, reg |-> reg1, seen |-> reg1, contents |-> NoContent]
  ELSE [threw |-> FALSE, reg |-> _unregister(reg1, opts), seen |-> reg1,
        contents |-> Invoke(tmpl, reg1)]

(* ------------------------- one render call ----------------------------- *)
NoLookup == [st |-> "none", via |-> "none", path |-> "none", tmpl |-> Absent,
             readNo |-> 0, stored |-> FALSE]

NoPre == [k \in Keys |-> [o9 |-> FALSE, a9 |-> FALSE]]

FreeSlot ==
  [active |-> FALSE, id |-> 0, call |-> NoCall,
   lk |-> [k \in Keys |-> NoLookup],
   result |-> NoResult, eachCompleted |-> 0, eachLive |-> TRUE,
   res0 |-> Absent, res1 |-> FALSE, parCompleted |-> 0, parLive |-> TRUE,
   cbCount |-> 0, cbErr |-> NoErr, cbContent |-> NoContent,
   returned |-> FALSE, cbSync |-> FALSE,
   invoked |-> 0, seen |-> EmptyRegistry, uncaught |-> 0,
   getCb |-> 0, getErr |-> NoErr, getRes0 |-> Absent, getRes1 |-> NoResult,
   firstFail |-> "none", regBefore |-> EmptyRegistry, regAfter |-> EmptyRegistry,
   epoch |-> 0, live |-> {}, conc |-> {}, nReads |-> 0,
   o2 |-> FALSE, a2 |-> FALSE, o3 |-> FALSE, a3 |-> FALSE, pre |-> NoPre]

Pending(s) == {k \in Keys : s.lk[k].st \in {"tick", "read"}}
Finished(s) == s.active /\ s.returned /\ Pending(s) = {}

\* The caller's callback.
callback(w, err, contents) ==
  [w EXCEPT !.r.cbCount = @ + 1, !.r.cbErr = err, !.r.cbContent = contents,
            !.r.cbSync = @ \/ ~w.r.returned]

\* The callback renderFile hands to _get; getCb, getErr, getRes0 and
\* getRes1 record its invocations and arguments, regBefore and regAfter the
\* registry around renderTmpl.
renderFile_cb(w, err) ==
  LET w0 == [w EXCEPT !.r.getCb = @ + 1, !.r.getErr = err] IN
  IF err # NoErr THEN callback(w0, err, NoContent)
  ELSE LET out == renderTmpl(w.reg, w.r.res0,
                             [partials |-> w.r.result, helpers |-> w.r.call.helpers])
           w1 == [w0 EXCEPT !.reg = out.reg, !.r.invoked = @ + 1, !.r.seen = out.seen,
                            !.r.getRes0 = w.r.res0, !.r.getRes1 = w.r.result,
                            !.r.regBefore = w.reg, !.r.regAfter = out.reg]
       IN IF out.threw THEN [w1 EXCEPT !.r.uncaught = @ + 1]
          ELSE callback(w1, NoErr, out.contents)

\* parallel_cb as it would be if an error did not disarm the final callback.
parallel_cb_noDisarm(w, idx, err, val) ==
  LET w1 == IF idx = 0 THEN [w EXCEPT !.r.res0 = val] ELSE [w EXCEPT !.r.res1 = TRUE] IN
  IF err # NoErr THEN renderFile_cb(w1, err)
  ELSE LET w2 == [w1 EXCEPT !.r.parCompleted = @ + 1] IN
       IF w2.r.parCompleted >= 2 /\ w2.r.parLive THEN renderFile_cb(w2, NoErr) ELSE w2

\* async.parallel over the two tasks of _get: the callback given to task
\* idx stores its result and counts; the first error, or the second
\* completion, calls the final callback, an error disarming it.
parallel_cb(w, idx, err, val) ==
  LET w1 == IF idx = 0 THEN [w EXCEPT !.r.res0 = val] ELSE [w EXCEPT !.r.res1 = TRUE] IN
  IF err # NoErr
  THEN IF w1.r.parLive THEN [renderFile_cb(w1, err) EXCEPT !.r.parLive = FALSE] ELSE w1
  ELSE LET w2 == [w1 EXCEPT !.r.parCompleted = @ + 1] IN
       IF w2.r.parCompleted >= 2 /\ w2.r.parLive THEN renderFile_cb(w2, NoErr) ELSE w2

\* mapObj_cb as it would be if result were created anew in every callback.
mapObj_cb_freshResult(w, key, err, val) ==
  LET w1 == [w EXCEPT !.r.result = [NoResult EXCEPT ![key] = val]]
      n == Len(w.r.call.partials) IN
  IF err # NoErr
  THEN IF w1.r.eachLive
       THEN parallel_cb([w1 EXCEPT !.r.eachLive = FALSE], 1, err, Absent)
       ELSE w1
  ELSE LET w2 == [w1 EXCEPT !.r.eachCompleted = @ + 1] IN
       IF w2.r.eachCompleted >= n /\ w2.r.eachLive
       THEN parallel_cb(w2, 1, NoErr, Absent)
       ELSE w2

\* async.mapObj: the callback given to the iterator for key stores the value
\* and reports to async.each, whose final callback passes the result on.
mapObj_cb(w, key, err, val) ==
  LET w1 == [w EXCEPT !.r.result[key] = val]
      n == Len(w.r.call.partials) IN
  IF err # NoErr
  THEN IF w1.r.eachLive
       THEN parallel_cb([w1 EXCEPT !.r.eachLive = FALSE], 1, err, Absent)
       ELSE w1
  ELSE LET w2 == [w1 EXCEPT !.r.eachCompleted = @ + 1] IN
       IF w2.r.eachCompleted >= n /\ w2.r.eachLive
       THEN parallel_cb(w2, 1, NoErr, Absent)
       ELSE w2

\* The callback _getTmpl was given for lookup k.
lookup_cb(w, k, err, val) ==
  IF k = "main" THEN parallel_cb(w, 0, err, val)
  ELSE mapObj_cb(w, k, err, IF err # NoErr THEN Undefined ELSE val)

\* _returnCached as it would be if it called back at once.
_returnCached_sync(w, k, tmpl) ==
  lookup_cb([w EXCEPT !.r.lk[k] = [@ EXCEPT !.st = "ok", !.via = "hit", !.tmpl = tmpl]],
            k, NoErr, tmpl)

\* ducktail._returnCached: defer the callback to the next tick.
_returnCached(w, k, tmpl) ==
  [w EXCEPT !.r.lk[k] = [@ EXCEPT !.st = "tick", !.via = "hit", !.tmpl = tmpl],
            !.ticks = Append(@, <<w.slot, k>>)]

\* ducktail._returnRead: issue fs.readFile.
_returnRead(w, k, tmplPath) ==
  LET n == w.serial + 1 IN
  [w EXCEPT !.r.lk[k] = [@ EXCEPT !.st = "read", !.via = "read", !.readNo = n],
            !.reads[tmplPath] = @ + 1,
            !.serial = n]

\* _getTmpl as it would be if it never consulted the cache.
_getTmpl_noCache(w, k, tmplPath) ==
  _returnRead([w EXCEPT !.r.lk[k].path = tmplPath], k, tmplPath)

\* ducktail._getTmpl
_getTmpl(w, k, tmplPath) ==
  LET tmpl == cache_get(w.cache, tmplPath)
      w1 == [w EXCEPT !.r.lk[k].path = tmplPath] IN
  IF tmpl # Absent THEN _returnCached(w1, k, tmpl) ELSE _returnRead(w1, k, tmplPath)

\* _cache as it would be if only the main template were stored.
_cache_mainOnly(w, k, tmplPath) ==
  IF CompileThrows(tmplPath)
  THEN [w EXCEPT !.r.lk[k].st = "threw", !.r.uncaught = @ + 1]
  ELSE LET compiled == Compile(tmplPath, w.r.lk[k].readNo)
           w1 == [w EXCEPT !.cache = IF k = "main" THEN cache_put(@, tmplPath, compiled)
                                     ELSE @,
                           !.r.lk[k] = [@ EXCEPT !.st = "ok", !.tmpl = compiled,
                                                 !.stored = (k = "main")]]
       IN lookup_cb(w1, k, NoErr, compiled)

\* _cache as it would be if the text were stored before it is compiled.
_cache_storeFirst(w, k, tmplPath) ==
  LET compiled == Compile(tmplPath, w.r.lk[k].readNo)
      w1 == [w EXCEPT !.cache = cache_put(@, tmplPath, compiled),
                      !.r.lk[k] = [@ EXCEPT !.tmpl = compiled, !.stored = TRUE]]
  IN IF CompileThrows(tmplPath)
     THEN [w1 EXCEPT !.r.lk[k].st = "threw", !.r.uncaught = @ + 1]
     ELSE lookup_cb([w1 EXCEPT !.r.lk[k].st = "ok"], k, NoErr, compiled)

\* _cache as it would be if the exception of compile were caught and
\* handed to the callback.
_cache_catch(w, k, tmplPath) ==
  IF CompileThrows(tmplPath)
  THEN lookup_cb([w EXCEPT !.r.lk[k].st = "threw"], k, CompileErr, Absent)
  ELSE LET compiled == Compile(tmplPath, w.r.lk[k].readNo)
           w1 == [w EXCEPT !.cache = cache_put(@, tmplPath, compiled),
                           !.r.lk[k] = [@ EXCEPT !.st = "ok", !.tmpl = compiled,
                                                 !.stored = TRUE]]
       IN lookup_cb(w1, k, NoErr, compiled)

\* ducktail._cache: compile, store, call back.  An exception of compile
\* leaves the readFile callback before anything is stored or called.
_cache(w, k, tmplPath) ==
  IF CompileThrows(tmplPath)
  THEN [w EXCEPT !.r.lk[k].st = "threw", !.r.uncaught = @ + 1]
  ELSE LET compiled == Compile(tmplPath, w.r.lk[k].readNo)
           w1 == [w EXCEPT !.cache = cache_put(@, tmplPath, compiled),
                           !.r.lk[k] = [@ EXCEPT !.st = "ok", !.tmpl = compiled,
                                                 !.stored = TRUE]]
       IN lookup_cb(w1, k, NoErr, compiled)

\* The readFile callback as it would be if err were not tested.
readFile_cb_noErrTest(w, k) ==
  LET tmplPath == w.r.lk[k].path
      compiled == Compile(tmplPath, w.r.lk[k].readNo)
      w1 == [w EXCEPT !.cache = cache_put(@, tmplPath, compiled),
                      !.r.lk[k] = [@ EXCEPT
                         !.st = IF FileKind(tmplPath) = "missing" THEN "failed" ELSE "ok",
                         !.tmpl = compiled, !.stored = TRUE]]
  IN lookup_cb(w1, k, NoErr, compiled)

\* The callback _returnRead gives to fs.readFile.
readFile_cb(w, k) ==
  LET tmplPath == w.r.lk[k].path IN
  IF FileKind(tmplPath) = "missing"
  THEN lookup_cb([w EXCEPT !.r.lk[k].st = "failed",
                            !.r.firstFail = IF @ = "none" THEN k ELSE @],
                 k, ReadErr(k), Absent)
  ELSE _cache(w, k, tmplPath)

\* The deferred function as it would be if the cache were consulted in it.
nextTick_cb_lookupLate(w, k) ==
  lookup_cb([w EXCEPT !.r.lk[k].st = "ok"], k, NoErr, cache_get(w.cache, w.r.lk[k].path))

\* The function _returnCached defers.
nextTick_cb(w, k) ==
  lookup_cb([w EXCEPT !.r.lk[k].st = "ok"], k, NoErr, w.r.lk[k].tmpl)

\* ducktail._getPartials: async.mapObj over the partials; async.each calls
\* its callback at once when there are no keys.
RECURSIVE eachFrom(_, _, _)
eachFrom(w, arr, i) ==
  IF i > Len(arr) THEN w
  ELSE eachFrom(_getTmpl(w, arr[i].name, arr[i].path), arr, i + 1)

_getPartials(w, partials) ==
  IF Len(partials) = 0 THEN parallel_cb(w, 1, NoErr, Absent)
  ELSE eachFrom(w, partials, 1)

\* ducktail._get: both tasks are started, in order.
_get(w, tmplPath, partials) ==
  _getPartials(_getTmpl(w, "main", tmplPath), partials)

(* --------------------------- history ----------------------------------- *)
ReadTotal == LET RECURSIVE Sum(_)
                 Sum(S) == IF S = {} THEN 0
                           ELSE LET p == CHOOSE q \in S : TRUE
                                IN readCount[p] + Sum(S \ {p})
             IN Sum(Paths)

World(r, s) ==
  [slot |-> r, r |-> s, cache |-> cache, reg |-> registry, reads |-> readCount,
   ticks |-> ticks, serial |-> ReadTotal]

\* A render that delivered success in this step is added to the history.
Delivered(old, new) ==
  IF new.cbCount > old.cbCount /\ new.cbErr = NoErr
  THEN delivered \cup
       {[id |-> new.id, call |-> new.call, fresh |-> new.epoch = clears]}
  ELSE delivered

PathsOf(call) == {PathOf(call, k) : k \in KeysOf(call)}
SuccMain == {d.call.path : d \in delivered}
FreshMain == {d.call.path : d \in {e \in delivered : e.fresh}}
SuccAll == UNION {PathsOf(d.call) : d \in delivered}
FreshAll == UNION {PathsOf(d.call) : d \in {e \in delivered : e.fresh}}

InFlight == {r \in Slots : rs[r].active /\ ~Finished(rs[r])}

NewRender(id, call) ==
  [FreeSlot EXCEPT
     !.active = TRUE, !.id = id, !.call = call, !.epoch = clears,
     !.live = {rs[q].id : q \in InFlight},
     !.conc = {rs[q].id : q \in {q2 \in Slots :
                  rs[q2].active /\ rs[q2].call.path = call.path
                  /\ rs[q2].lk["main"].st = "read"}},
     !.o2 = call.path \in SuccMain,
     !.a2 = call.path \in FreshMain,
     !.o3 = clears > 0 /\ call.path \in wasCached,
     !.a3 = clears > 0 /\ call.path \in wasCached /\ call.path \notin putSince,
     !.pre = [k \in Keys |->
                IF k \in KeysOf(call)
                THEN [o9 |-> PathOf(call, k) \in SuccAll,
                      a9 |-> PathOf(call, k) \in FreshAll]
                ELSE [o9 |-> FALSE, a9 |-> FALSE]]]

(* ------------------- argument handling of render ----------------------- *)
\* A JavaScript value in an argument position: undefined, a function or an
\* object.  own tells the caller's object from one the module creates; m
\* is the content of a mapping.
JUndefined(m0) == [t |-> "undefined", own |-> FALSE, m |-> m0]
JObject(m) == [t |-> "object", own |-> TRUE, m |-> m]
\* The literal {} in the module.
EmptyLiteral(m0) == [t |-> "object", own |-> FALSE, m |-> m0]
Truthy(v) == v.t # "undefined"
\* a || b
Or(a, b) == IF Truthy(a) THEN a ELSE b

ArgPaths == {"tmpl", "fake"}
Callbacks == {"cb1", "cb2"}
NoCallback == "undefined"

\* opts.partials and opts.helpers as a caller may give them.
PartialsGiven ==
  {JUndefined(NoPartials)} \cup {JObject(c.partials) : c \in Calls}
HelpersGiven ==
  {JUndefined(NoHelpers)} \cup {JObject(c.helpers) : c \in Calls}

\* The arguments of render: either (path, data, callback) or
\* (path, data, opts, callback).
RawArgs ==
  { [tmplPath |-> p, optsIs |-> "function", fn |-> cb,
     partials |-> JUndefined(NoPartials), helpers |-> JUndefined(NoHelpers),
     callback |-> NoCallback] : p \in ArgPaths, cb \in Callbacks }
  \cup
  { [tmplPath |-> p, optsIs |-> "object", fn |-> NoCallback,
     partials |-> ps, helpers |-> hs, callback |-> cb] :
       p \in ArgPaths, ps \in PartialsGiven, hs \in HelpersGiven, cb \in Callbacks }

\* render as it would be if the defaults replaced what the caller gave.
render_alwaysDefault(a) ==
  LET isFunction == a.optsIs = "function"
  IN [tmplPath |-> a.tmplPath,
      partials |-> EmptyLiteral(NoPartials),
      helpers  |-> EmptyLiteral(NoHelpers),
      callback |-> IF isFunction THEN a.fn ELSE a.callback]

\* ducktail.render up to its call of renderFile: the arguments renderFile
\* is called with.
render(a) ==
  LET isFunction == a.optsIs = "function"
      cb == IF isFunction THEN a.fn ELSE a.callback
      opts == IF isFunction
              THEN [partials |-> JUndefined(NoPartials), helpers |-> JUndefined(NoHelpers)]
              ELSE [partials |-> a.partials, helpers |-> a.helpers]
  IN [tmplPath |-> a.tmplPath,
      partials |-> Or(opts.partials, EmptyLiteral(NoPartials)),
      helpers  |-> Or(opts.helpers, EmptyLiteral(NoHelpers)),
      callback |-> cb]

(* ---------------- the earlier variant: raw text in the cache ----------- *)
\* A string, or the null that cache.get gives for a missing key.
JString(s) == [t |-> "string", s |-> s]
JNull == [t |-> "null", s |-> ""]
\* if (tmpl)
v1_Truthy(v) == v.t = "string" /\ v.s # ""

v1_Paths == {"tmpl", "empty", "fake"}
\* The text fs.readFile gives; the file "fake" does not exist.
v1_FileText(p) == IF p = "empty" THEN JString("") ELSE JString("<h1>{{title}}</h1>")
v1_Missing(p) == p = "fake"

\* ducktail._render: Handlebars.compile(tmpl)(data).
_render(tmpl) == [rendered |-> tmpl.s]
v1_NoContents == [rendered |-> "undefined"]

v1_Loaded ==
  [cache     |-> [p \in v1_Paths |-> JNull],
   readCount |-> [p \in v1_Paths |-> 0],
   ticks     |-> <<>>,
   rs        |-> <<>>,
   clears    |-> 0,
   done      |-> {}]

\* One call of render: its path, where it stands, the text it holds, what
\* its callback received, and (history) whether the path had been rendered
\* with success by a call begun and ended since the last clearCache.
v1_Call(p, st, tmpl, pre, epoch) ==
  [tmplPath |-> p, st |-> st, tmpl |-> tmpl, pre |-> pre, epoch |-> epoch,
   didRead |-> st = "read", cbCount |-> 0, cbErr |-> NoErr, contents |-> v1_NoContents]

\* ducktail.render of the earlier variant, up to its return.
v1_render(s, p) ==
  LET tmpl == s.cache[p]
  IN IF v1_Truthy(tmpl)
     THEN [s EXCEPT !.rs = Append(@, v1_Call(p, "tick", tmpl, p \in s.done, s.clears)),
                    !.ticks = Append(@, Len(s.rs) + 1)]
     ELSE [s EXCEPT !.rs = Append(@, v1_Call(p, "read", JNull, p \in s.done, s.clears)),
                    !.readCount[p] = @ + 1]

\* callback(null, contents) of call i.
v1_callback(s, i, contents) ==
  [s EXCEPT !.rs[i].st = "done", !.rs[i].cbCount = @ + 1, !.rs[i].contents = contents,
            !.done = IF s.rs[i].epoch = s.clears THEN @ \cup {s.rs[i].tmplPath} ELSE @]

\* The function render defers with process.nextTick.
v1_nextTick_cb(s, i) == v1_callback(s, i, _render(s.rs[i].tmpl))

\* The callback render gives to fs.readFile.
v1_readFile_cb(s, i) ==
  LET p == s.rs[i].tmplPath
      tmpl == v1_FileText(p)
  IN IF v1_Missing(p)
     THEN [s EXCEPT !.rs[i].st = "failed", !.rs[i].cbCount = @ + 1,
                    !.rs[i].cbErr = ReadErr("main")]
     ELSE v1_callback([s EXCEPT !.cache[p] = tmpl, !.rs[i].tmpl = tmpl], i, _render(tmpl))

\* ducktail.clearCache of the earlier variant.
v1_clearCache(s) ==
  [s EXCEPT !.cache = [p \in v1_Paths |-> JNull], !.clears = @ + 1, !.done = {}]

(* ----------------------------- actions --------------------------------- *)
Init ==
  /\ cache = {}
  /\ registry = EmptyRegistry
  /\ readCount = [p \in Paths |-> 0]
  /\ ticks = <<>>
  /\ rs = [r \in Slots |-> FreeSlot]
  /\ calls = 0
  /\ clears = 0
  /\ lastOp = "init"
  /\ delivered = {}
  /\ putSince = {}
  /\ wasCached = {}
  /\ passed = <<>>
  /\ v1 = v1_Loaded

Commit(r, old, w, op) ==
  /\ rs' = [rs EXCEPT ![r] = w.r]
  /\ cache' = w.cache
  /\ registry' = w.reg
  /\ readCount' = w.reads
  /\ delivered' = Delivered(old, w.r)
  /\ lastOp' = op

\* ducktail.render -> renderFile -> _get, up to the return of render.  The
\* call takes the lowest slot that is free or holds a finished render.
Render(call) ==
  /\ calls < MaxCalls
  /\ \E r \in Slots :
       /\ ~rs[r].active \/ Finished(rs[r])
       /\ \A q \in Slots : q < r => (rs[q].active /\ ~Finished(rs[q]))
       /\ LET s0 == NewRender(calls + 1, call)
              w == _get(World(r, s0), call.path, call.partials)
              w1 == [w EXCEPT !.r.returned = TRUE, !.r.nReads = w.serial - ReadTotal]
          IN /\ Commit(r, s0, w1, "render")
             /\ ticks' = w1.ticks
  /\ calls' = calls + 1
  /\ UNCHANGED <<clears, putSince, wasCached, passed, v1>>

\* The event loop runs the oldest process.nextTick callback.
NextTick ==
  /\ ticks # <<>>
  /\ LET r == Head(ticks)[1]
         k == Head(ticks)[2]
         w == nextTick_cb(World(r, rs[r]), k)
     IN Commit(r, rs[r], w, "tick")
  /\ ticks' = Tail(ticks)
  /\ UNCHANGED <<calls, clears, putSince, wasCached, passed, v1>>

\* A file read completes; I/O callbacks run once the tick queue is empty.
ReadFileDone(r, k) ==
  /\ ticks = <<>>
  /\ rs[r].active
  /\ rs[r].lk[k].st = "read"
  /\ LET w == readFile_cb(World(r, rs[r]), k)
     IN /\ Commit(r, rs[r], w, "read")
        /\ putSince' = IF w.r.lk[k].stored THEN putSince \cup {w.r.lk[k].path}
                       ELSE putSince
  /\ UNCHANGED <<ticks, calls, clears, wasCached, passed, v1>>

\* ducktail.clearCache
clearCache ==
  /\ clears < MaxClears
  /\ cache' = cache_clear(cache)
  /\ clears' = clears + 1
  /\ lastOp' = "clearCache"
  /\ delivered' = {}
  /\ wasCached' = wasCached \cup putSince
  /\ putSince' = {}
  /\ UNCHANGED <<registry, readCount, ticks, rs, calls, passed, v1>>

Next ==
  \/ \E call \in Calls : Render(call)
  \/ NextTick
  \/ \E r \in Slots, k \in Keys : ReadFileDone(r, k)
  \/ clearCache

Spec == Init /\ [][Next]_vars

(* ------------- argument handling of render: specification -------------- *)
MaxArgCalls == 2

\* render is called with the arguments a and calls renderFile.
RenderArgs(a) ==
  /\ Len(passed) < MaxArgCalls
  /\ passed' = Append(passed, [given |-> a, renderFile |-> render(a)])
  /\ UNCHANGED <<mainVars, v1>>

NextArgs == \E a \in RawArgs : RenderArgs(a)

SpecArgs == Init /\ [][NextArgs]_vars

(* ----------------- the earlier variant: specification ------------------ *)
V1Render(p) ==
  /\ Len(v1.rs) < MaxCalls
  /\ v1' = v1_render(v1, p)
  /\ UNCHANGED <<mainVars, passed>>

V1NextTick ==
  /\ v1.ticks # <<>>
  /\ v1' = [v1_nextTick_cb(v1, Head(v1.ticks)) EXCEPT !.ticks = Tail(v1.ticks)]
  /\ UNCHANGED <<mainVars, passed>>

V1ReadFileDone(i) ==
  /\ v1.ticks = <<>>
  /\ i \in 1..Len(v1.rs)
  /\ v1.rs[i].st = "read"
  /\ v1' = v1_readFile_cb(v1, i)
  /\ UNCHANGED <<mainVars, passed>>

V1ClearCache ==
  /\ v1.clears < MaxClears
  /\ v1' = v1_clearCache(v1)
  /\ UNCHANGED <<mainVars, passed>>

NextV1 ==
  \/ \E p \in v1_Paths : V1Render(p)
  \/ V1NextTick
  \/ \E i \in 1..MaxCalls : V1ReadFileDone(i)
  \/ V1ClearCache

SpecV1 == Init /\ [][NextV1]_vars


(* ------------------------------ claims --------------------------------- *)
Active == {r \in Slots : rs[r].active}
Entries(p) == {e \in cache : e.key = p}
Main(r) == rs[r].lk["main"]
AllOk(r) == \A k \in KeysOf(rs[r].call) : rs[r].lk[k].st = "ok"
Success(r) == rs[r].cbCount = 1 /\ rs[r].cbErr = NoErr /\ rs[r].cbContent # NoContent

\* C1: once every lookup of a render call has completed, whatever its
\* outcome, the caller's callback has been invoked exactly once.
C1_CallbackExactlyOnce ==
  \A r \in Active : Finished(rs[r]) => rs[r].cbCount = 1

\* C2 (as stated): a render of p that starts when some render of p has
\* delivered success with no clearCache since that delivery reads no file
\* for p.
C2_NoReadAfterSuccess ==
  \A r \in Active : rs[r].o2 => Main(r).via # "read"

\* C2 (amended): a render of p that starts when some render of p has
\* delivered success with no clearCache since that render STARTED reads no
\* file for p; and rendering p twice in sequence, with no other call and no
\* clearCache, performs exactly one read of p in total.
C2_NoReadAfterFreshSuccess ==
  /\ \A r \in Active : rs[r].a2 => Main(r).via = "hit" /\ Main(r).readNo = 0
  /\ \A r \in Active :
       ( /\ calls = 2 /\ clears = 0 /\ rs[r].id = 2 /\ rs[r].a2
         /\ rs[r].call.partials = NoPartials
         /\ \E d \in delivered : d.id = 1 /\ d.call = rs[r].call )
       => readCount[rs[r].call.path] = 1

C2_Witness ==
  \E r \in Active :
    /\ calls = 2 /\ clears = 0 /\ rs[r].id = 2 /\ rs[r].a2
    /\ rs[r].call.partials = NoPartials
    /\ \E d \in delivered : d.id = 1 /\ d.call = rs[r].call
    /\ Success(r)
    /\ readCount[rs[r].call.path] = 1

\* C3 (as stated): a render of a previously cached path that starts after
\* a clearCache reads the file again, in every interleaving.
C3_ReadAfterClear ==
  \A r \in Active : rs[r].o3 => Main(r).via = "read"

\* C3 (amended): a render of a previously cached path p that starts after
\* a clearCache, and before any read of p has completed and stored p again
\* since that clearCache, reads the file again.
C3_ReadAfterClearUnlessRestored ==
  \A r \in Active : rs[r].a3 => Main(r).via = "read" /\ Main(r).readNo > 0

C3_Witness ==
  \E r \in Active :
    /\ rs[r].a3 /\ Main(r).via = "read"
    /\ rs[r].call.path \in wasCached
    /\ readCount[rs[r].call.path] >= 2

\* C4: when the read of the main template or of a partial fails, the
\* callback has received a non-null error and no content, the template was
\* not invoked, and the path has no cache entry.
C4_MissingFileYieldsError ==
  \A r \in Active : \A k \in KeysOf(rs[r].call) :
    rs[r].lk[k].st = "failed" =>
      /\ rs[r].cbCount = 1
      /\ rs[r].cbErr # NoErr
      /\ rs[r].cbContent = NoContent
      /\ rs[r].invoked = 0
      /\ ~rs[r].lk[k].stored
      /\ cache_get(cache, rs[r].lk[k].path) = Absent

C4_Witness ==
  \E r \in Active :
    /\ Main(r).st = "ok"
    /\ rs[r].lk["x"].st = "failed"
    /\ rs[r].lk["y"].st = "ok"
    /\ rs[r].cbCount = 1 /\ rs[r].cbErr = ReadErr("x")

\* C5: the callback is never invoked before render has returned, for a
\* cache hit as for a miss and with or without partials; a cache hit is
\* still pending when render returns and has issued no file read.
C5_UniformAsynchrony ==
  \A r \in Active :
    /\ ~rs[r].cbSync
    /\ rs[r].cbCount > 0 => rs[r].returned
    /\ rs[r].nReads = Cardinality({k \in KeysOf(rs[r].call) : rs[r].lk[k].via = "read"})
    /\ \A k \in KeysOf(rs[r].call) :
         rs[r].lk[k].via = "hit" =>
           /\ rs[r].lk[k].readNo = 0
           /\ (lastOp = "render" /\ rs[r].id = calls) =>
                (rs[r].lk[k].st = "tick" /\ rs[r].cbCount = 0)

C5_Witness ==
  \E r \in Active :
    /\ lastOp = "render" /\ rs[r].id = calls
    /\ rs[r].call.partials = NoPartials
    /\ Main(r).via = "hit" /\ Main(r).st = "tick"
    /\ rs[r].cbCount = 0 /\ rs[r].returned

\* C6: once renderTmpl has run for a render call, whether the invocation
\* returned or raised, the registry holds none of the names the call
\* registered.
C6_RegistryCleanAfterRender ==
  \A r \in Active : rs[r].invoked > 0 =>
    /\ \A n \in PartialKeys(rs[r].call) : registry.partials[n] = Absent
    /\ \A n \in HelperNames :
         rs[r].call.helpers[n] # Absent => registry.helpers[n] = Absent

\* C7: every template invocation sees, for each partial and helper name
\* its own render binds, its own render's binding, whatever other renders
\* are in flight and whatever they bind to the same name.
C7_SeesOwnBinding ==
  \A r \in Active : rs[r].invoked > 0 =>
    /\ \A n \in PartialKeys(rs[r].call) :
         /\ rs[r].seen.partials[n] = rs[r].lk[n].tmpl
         /\ rs[r].seen.partials[n].src = PathOf(rs[r].call, n)
    /\ \A n \in HelperNames :
         rs[r].call.helpers[n] # Absent =>
           rs[r].seen.helpers[n] = rs[r].call.helpers[n]

C7_Witness ==
  \E r1 \in Active, r2 \in Active :
    /\ r1 # r2
    /\ rs[r1].id \in rs[r2].live
    /\ rs[r1].invoked > 0 /\ rs[r2].invoked > 0
    /\ rs[r1].call.helpers["h"] # Absent /\ rs[r2].call.helpers["h"] # Absent
    /\ rs[r1].call.helpers["h"] # rs[r2].call.helpers["h"]
    /\ rs[r1].seen.helpers["h"] # rs[r2].seen.helpers["h"]
    /\ "x" \in PartialKeys(rs[r1].call) /\ "x" \in PartialKeys(rs[r2].call)
    /\ rs[r1].seen.partials["x"].src # rs[r2].seen.partials["x"].src

\* C8: two renders of the same un-cached path, the second started while
\* the read of the first is pending, each issue their own read; when the
\* lookups of both succeed and the template returns, both have stored into
\* the cache and both callbacks have received success; and while no
\* clearCache follows, the cache holds exactly one entry for the path.
C8_NoDeduplication ==
  \A r1 \in Active, r2 \in Active :
    (r1 # r2 /\ rs[r1].id \in rs[r2].conc /\ Main(r2).via = "read") =>
      /\ Main(r1).via = "read"
      /\ Main(r1).readNo # Main(r2).readNo
      /\ readCount[rs[r2].call.path] >= 2
      /\ ( /\ Finished(rs[r1]) /\ Finished(rs[r2]) /\ AllOk(r1) /\ AllOk(r2)
           /\ FileKind(rs[r2].call.path) = "ok" )
         => /\ Main(r1).stored /\ Main(r2).stored
            /\ Success(r1) /\ Success(r2)
            /\ Cardinality(Entries(rs[r2].call.path)) <= 1
            /\ rs[r2].call.path \in putSince
                 => Cardinality(Entries(rs[r2].call.path)) = 1

C8_Witness ==
  \E r1 \in Active, r2 \in Active :
    /\ r1 # r2 /\ rs[r1].id \in rs[r2].conc /\ Main(r2).via = "read"
    /\ Finished(rs[r1]) /\ Finished(rs[r2]) /\ AllOk(r1) /\ AllOk(r2)
    /\ Success(r1) /\ Success(r2)
    /\ Main(r1).stored /\ Main(r2).stored
    /\ Cardinality(Entries(rs[r2].call.path)) = 1

\* C9 (as stated): after a render with partials has succeeded, with no
\* clearCache since that success, its main path and partial paths are
\* cached and a later render reads no file for any of them, as main
\* template or as a partial.
C9_PartialsShareCache ==
  /\ \A p \in SuccAll : cache_get(cache, p) # Absent
  /\ \A r \in Active : \A k \in KeysOf(rs[r].call) :
       rs[r].pre[k].o9 => rs[r].lk[k].via # "read"

\* C9 (amended): after a render has succeeded, with no clearCache since
\* that render STARTED, its main path and every partial path are cached,
\* and a later render reads no file for any of them, as main template or as
\* a partial under any name.
C9_PartialsShareCacheFresh ==
  /\ \A p \in FreshAll : cache_get(cache, p) # Absent
  /\ \A r \in Active : \A k \in KeysOf(rs[r].call) :
       rs[r].pre[k].a9 => rs[r].lk[k].via = "hit" /\ rs[r].lk[k].readNo = 0

C9_Witness ==
  \E r \in Active : \E d \in delivered :
    /\ d.fresh /\ d.id < rs[r].id
    /\ Len(d.call.partials) > 0
    /\ d.call.path # rs[r].call.path
    /\ \A k \in KeysOf(rs[r].call) : rs[r].pre[k].a9 /\ rs[r].lk[k].via = "hit"
    /\ d.call.path \in {PathOf(rs[r].call, k) : k \in PartialKeys(rs[r].call)}
    /\ rs[r].nReads = 0

\* C10: in the state clearCache leaves, the cache lookup of every path is
\* absent.
C10_ClearRemovesAll ==
  lastOp = "clearCache" => \A p \in Paths : cache_get(cache, p) = Absent

C10_Witness ==
  /\ lastOp = "clearCache"
  /\ Cardinality(wasCached) >= 2
  /\ \A p \in wasCached : cache_get(cache, p) = Absent

Failed(r) == {k \in KeysOf(rs[r].call) : rs[r].lk[k].st = "failed"}

\* C11: the callback of _get fires at most once; with no failed lookup it
\* has fired exactly when the main lookup and every partial lookup have
\* completed; once a lookup has failed it has fired with the error of the
\* first lookup that failed, the template was not rendered, and a later
\* completion or failure adds no invocation.
C11_JoinFirstError ==
  \A r \in Active :
    /\ rs[r].getCb <= 1
    /\ Failed(r) = {} => (rs[r].getCb = 1 <=> AllOk(r))
    /\ Failed(r) = {} => rs[r].getErr = NoErr
    /\ Failed(r) # {} =>
         /\ rs[r].getCb = 1
         /\ rs[r].firstFail \in Failed(r)
         /\ rs[r].getErr = ReadErr(rs[r].firstFail)
         /\ rs[r].invoked = 0
         /\ rs[r].cbCount = 1 /\ rs[r].cbErr = rs[r].getErr

C11_Witness ==
  \E r \in Active :
    /\ Failed(r) = {"main", "x"}
    /\ rs[r].firstFail = "x"
    /\ rs[r].getCb = 1 /\ rs[r].getErr = ReadErr("x")
    /\ rs[r].cbCount = 1

\* C12: when _get calls back without error, in whatever order the lookups
\* completed, element 0 of the result is the compiled template of the main
\* path and element 1 maps exactly the names of the partials mapping, each
\* to the compiled template its lookup obtained for that name's path (no
\* name at all for an empty partials mapping).
C12_GetResult ==
  \A r \in Active :
    (rs[r].getCb = 1 /\ rs[r].getErr = NoErr) =>
      /\ rs[r].getRes0 = Main(r).tmpl
      /\ rs[r].getRes0.src = rs[r].call.path
      /\ \A n \in PartialNames :
           IF n \in PartialKeys(rs[r].call)
           THEN /\ rs[r].getRes1[n] = rs[r].lk[n].tmpl
                /\ rs[r].getRes1[n].src = PathOf(rs[r].call, n)
           ELSE rs[r].getRes1[n] = Absent

\* The partial x was a cache hit and completed on a tick, before the reads
\* of the main template and of partial y, which were issued before it.
C12_Witness ==
  \E r \in Active :
    /\ rs[r].getCb = 1 /\ rs[r].getErr = NoErr
    /\ PartialKeys(rs[r].call) = {"x", "y"}
    /\ Main(r).via = "read" /\ rs[r].lk["x"].via = "hit" /\ rs[r].lk["y"].via = "read"
    /\ rs[r].getRes1["x"].src # rs[r].getRes1["y"].src
    /\ rs[r].getRes0 = Main(r).tmpl

\* C13: in every state the cache holds at most one entry per path, and a
\* path has an entry only if a read of it succeeded, its text compiled and
\* the result was stored since the last clearCache.
C13_CacheInvariant ==
  \A p \in Paths :
    /\ Cardinality(Entries(p)) <= 1
    /\ Entries(p) # {} =>
         /\ p \in putSince
         /\ FileKind(p) \notin {"missing", "nocompile"}
         /\ readCount[p] >= 1
         /\ \A e \in Entries(p) : e.val.src = p /\ e.val.by \in 1..ReadTotal

C13_Witness ==
  \E p \in Paths :
    /\ clears > 0
    /\ p \in wasCached /\ p \in putSince
    /\ readCount[p] >= 3
    /\ Cardinality(Entries(p)) = 1
    /\ readCount["bad"] >= 1 /\ Entries("bad") = {}

Threw(r) == {k \in KeysOf(rs[r].call) : rs[r].lk[k].st = "threw"}

\* C14: when compiling the text read for a path raises, the exception
\* leaves the read-completion step uncaught: the lookup's callback is not
\* called, the render's callback receives no compile error, and nothing is
\* stored in the cache for the path.
C14_CompileFailureThrown ==
  \A r \in Active :
    /\ rs[r].cbErr # CompileErr /\ rs[r].getErr # CompileErr
    /\ \A k \in Threw(r) :
         /\ rs[r].uncaught >= 1
         /\ ~rs[r].lk[k].stored
         /\ rs[r].lk[k].tmpl = Absent
         /\ cache_get(cache, rs[r].lk[k].path) = Absent
         /\ k = "main" => rs[r].res0 = Absent /\ rs[r].parCompleted <= 1
         /\ k # "main" => rs[r].result[k] = Absent
         /\ rs[r].invoked = 0
         /\ Failed(r) = {} => rs[r].getCb = 0 /\ rs[r].cbCount = 0

C14_Witness ==
  \E r \in Active :
    /\ Threw(r) = {"main"} /\ Failed(r) = {}
    /\ rs[r].lk["x"].st = "read"
    /\ rs[r].uncaught = 1 /\ rs[r].cbCount = 0
    /\ cache_get(cache, rs[r].call.path) = Absent

Kinds(call) == {FileKind(PathOf(call, k)) : k \in KeysOf(call)}
Got(r, k) == IF k = "main" THEN rs[r].res0 ELSE rs[r].result[k]

\* C17: whether or not clearCache ran while a render was in flight, a
\* lookup that hit the cache delivers the template it obtained when render
\* was called, a lookup that read the file compiles, stores and delivers
\* its template, and the outcome of the finished render is the one its
\* arguments determine: the read error, or the content rendered from the
\* templates of its own paths.
C17_ClearDoesNotChangeOutcome ==
  \A r \in Active :
    /\ \A k \in KeysOf(rs[r].call) :
         rs[r].lk[k].st = "ok" =>
           /\ Got(r, k) = rs[r].lk[k].tmpl
           /\ Got(r, k).src = PathOf(rs[r].call, k)
           /\ rs[r].lk[k].via = "hit" => ~rs[r].lk[k].stored
           /\ rs[r].lk[k].via = "read" =>
                /\ rs[r].lk[k].stored
                /\ Got(r, k) = Compile(PathOf(rs[r].call, k), rs[r].lk[k].readNo)
    /\ Finished(rs[r]) =>
         IF "missing" \in Kinds(rs[r].call)
         THEN rs[r].cbCount = 1 /\ rs[r].cbErr # NoErr /\ rs[r].cbContent = NoContent
         ELSE IF "nocompile" \in Kinds(rs[r].call) \/ FileKind(rs[r].call.path) = "throws"
         THEN rs[r].cbCount = 0
         ELSE /\ Success(r)
              /\ rs[r].cbContent.of.src = rs[r].call.path
              /\ \A n \in PartialKeys(rs[r].call) :
                   rs[r].cbContent.partials[n].src = PathOf(rs[r].call, n)
              /\ \A n \in HelperNames :
                   rs[r].call.helpers[n] # Absent =>
                     rs[r].cbContent.helpers[n] = rs[r].call.helpers[n]

\* The render hit the cache for its main template, clearCache ran while
\* it was in flight, its partial was read and stored after the clear, and
\* it delivered success.
C17_Witness ==
  \E r \in Active : \E d \in delivered :
    /\ d.id = rs[r].id /\ ~d.fresh
    /\ Main(r).via = "hit" /\ rs[r].lk["x"].via = "read" /\ rs[r].lk["x"].stored
    /\ Success(r)
    /\ cache_get(cache, rs[r].call.path) = Absent
    /\ cache_get(cache, rs[r].lk["x"].path) = rs[r].lk["x"].tmpl

NormalReturn(r) == rs[r].invoked > 0 /\ rs[r].getCb = 1 /\ rs[r].cbCount = 1 /\ rs[r].cbErr = NoErr

\* C18: after renderTmpl has returned normally, every partial or helper
\* name that is no key of opts.partials or opts.helpers is registered as
\* before the call, and every name that is a key is unregistered, also when
\* it was registered before the call.
C18_RenderTmplFrame ==
  \A r \in Active : NormalReturn(r) =>
    /\ \A n \in PartialNames :
         IF n \in PartialKeys(rs[r].call)
         THEN rs[r].regAfter.partials[n] = Absent
         ELSE rs[r].regAfter.partials[n] = rs[r].regBefore.partials[n]
    /\ \A n \in HelperNames :
         IF rs[r].call.helpers[n] # Absent
         THEN rs[r].regAfter.helpers[n] = Absent
         ELSE rs[r].regAfter.helpers[n] = rs[r].regBefore.helpers[n]

\* One call found helper h and partial x registered, bound neither and
\* left them; another found them registered, bound them and removed them.
C18_Witness ==
  \E r1 \in Active, r2 \in Active :
    /\ NormalReturn(r1) /\ NormalReturn(r2)
    /\ rs[r1].call.helpers["h"] = Absent /\ PartialKeys(rs[r1].call) = {}
    /\ rs[r1].regBefore.helpers["h"] # Absent /\ rs[r1].regBefore.partials["x"] # Absent
    /\ rs[r1].regAfter = rs[r1].regBefore
    /\ rs[r2].call.helpers["h"] # Absent /\ "x" \in PartialKeys(rs[r2].call)
    /\ rs[r2].regBefore.helpers["h"] # Absent /\ rs[r2].regBefore.partials["x"] # Absent
    /\ rs[r2].regBefore.helpers["h"] # rs[r2].call.helpers["h"]
    /\ rs[r2].regAfter.helpers["h"] = Absent /\ rs[r2].regAfter.partials["x"] = Absent

\* C15: when the third argument of render is a function, renderFile gets
\* it as the callback and both options are the module's own empty
\* mappings; otherwise renderFile gets the fourth argument as the callback;
\* in every case both options are present, an omitted one is an empty
\* mapping, and a mapping the caller gave is passed on as it is.
C15_OptionalOptions ==
  \A i \in 1..Len(passed) :
    LET a == passed[i].given
        f == passed[i].renderFile
    IN /\ f.tmplPath = a.tmplPath
       /\ f.partials.t = "object" /\ f.helpers.t = "object"
       /\ a.optsIs = "function" =>
            /\ f.callback = a.fn
            /\ f.partials = EmptyLiteral(NoPartials)
            /\ f.helpers = EmptyLiteral(NoHelpers)
       /\ a.optsIs = "object" =>
            /\ f.callback = a.callback
            /\ f.partials = (IF a.partials.t = "undefined"
                             THEN EmptyLiteral(NoPartials) ELSE a.partials)
            /\ f.helpers = (IF a.helpers.t = "undefined"
                            THEN EmptyLiteral(NoHelpers) ELSE a.helpers)

\* render was called once with the callback in third place and once with
\* options that give partials and omit helpers.
C15_Witness ==
  /\ Len(passed) = 2
  /\ passed[1].given.optsIs = "function"
  /\ passed[1].renderFile.callback = "cb1"
  /\ passed[1].renderFile.partials.m = NoPartials
  /\ passed[2].given.optsIs = "object"
  /\ passed[2].given.partials = JObject(<<P("x", "part")>>)
  /\ passed[2].given.helpers.t = "undefined"
  /\ passed[2].renderFile.partials = JObject(<<P("x", "part")>>)
  /\ passed[2].renderFile.helpers = EmptyLiteral(NoHelpers)
  /\ passed[2].renderFile.callback = "cb2"

\* C16: in the earlier variant, a render of a path that was rendered with
\* success before, with no clearCache since that earlier render began,
\* reads no file, whatever the content of the file, an empty file included.
C16_OneReadPerPath ==
  \A i \in 1..Len(v1.rs) : v1.rs[i].pre => ~v1.rs[i].didRead

====
